---- MODULE Spec2Model ----
\* A model of the RDF quad/triple decoding engine of decoder.go: the decoder
\* factories, the token lookahead buffer (next/peek), the typed-token
\* expectation checks with their fault messages, and the Decode/DecodeAll
\* facade.  The lexer and the N-Quads grammar routine (parseNQ) are not part
\* of decoder.go; they are modelled from the written specification of the
\* engine (lexer contract, section 6; grammar state machine, section 4.2).
EXTENDS Integers, Sequences, FiniteSets, TLC

\* ---------------------------------------------------------------- bounds

\* Largest number of statements (lines) of a document decoded through the
\* facade (Decode, DecodeAll).
MaxStmts == 2

\* Largest number of statements (lines) of a document whose tokens are also
\* taken one by one (next, peek, expect1As, expectAs).
MaxLines == 2

\* Number of lexer pulls allowed beyond the end-of-input token.
MaxExtraPulls == 1

\* ---------------------------------------------------------------- values

\* F applied to the value of v, computed once (a local variable holding the
\* result of a call).
Bind(v, F(_)) == CHOOSE y \in {F(x) : x \in {v}} : TRUE

\* ---------------------------------------------------------------- tokens

tokenError == "tokenError"
tokenEOF == "tokenEOF"
tokenEOL == "tokenEOL"
tokenIRIAbs == "tokenIRIAbs"
tokenBNode == "tokenBNode"
tokenLiteral == "tokenLiteral"
tokenLang == "tokenLang"
tokenDataTypeMarker == "tokenDataTypeMarker"
tokenDot == "tokenDot"

TokenTypes ==
  {tokenError, tokenEOF, tokenEOL, tokenIRIAbs, tokenBNode, tokenLiteral,
   tokenLang, tokenDataTypeMarker, tokenDot}

\* The zero value of the token struct (an unused slot of the lookahead array).
ZeroToken == [typ |-> "zero", text |-> "", line |-> 0, col |-> 0]

\* ---------------------------------------------------------------- formats

FormatNT == "FormatNT"
FormatNQ == "FormatNQ"
FormatRDFXML == "FormatRDFXML"
FormatTTL == "FormatTTL"

Format == {FormatNT, FormatNQ, FormatRDFXML, FormatTTL}

\* The serializations a QuadDecoder parses (doc comment of the type): N-Quads.
QuadFormats == {FormatNQ}

\* ---------------------------------------------------------------- terms

NoTerm == [kind |-> "none"]
IRI(s) == [kind |-> "IRI", str |-> s]
Blank(s) == [kind |-> "Blank", id |-> s]
Literal(s, lang, dt) == [kind |-> "Literal", str |-> s, lang |-> lang, DataType |-> dt]

ZeroQuad == [Subj |-> NoTerm, Pred |-> NoTerm, Obj |-> NoTerm, Ctx |-> NoTerm]

\* ---------------------------------------------------------------- errors

nil == [kind |-> "nil"]
EOF == [kind |-> "EOF"]
NoPanic == [kind |-> "none"]

\* Decimal rendering of a non-negative integer (the %d verb).
Digit == <<"0", "1", "2", "3", "4", "5", "6", "7", "8", "9">>

RECURSIVE Itoa(_)
Itoa(n) == IF n < 10 THEN Digit[n + 1] ELSE Itoa(n \div 10) \o Digit[(n % 10) + 1]

\* fmt.Sprintf over a format given as its pieces: verbs are replaced by the
\* successive arguments, the other pieces are copied.
RECURSIVE Sprintf(_, _)
Sprintf(format, args) ==
  IF format = <<>> THEN <<>>
  ELSE IF Head(format) = "%d"
    THEN <<Itoa(Head(args))>> \o Sprintf(Tail(format), Tail(args))
  ELSE IF Head(format) \in {"%s", "%v"}
    THEN <<Head(args)>> \o Sprintf(Tail(format), Tail(args))
  ELSE <<Head(format)>> \o Sprintf(Tail(format), args)

\* fmt.Errorf: an error value carrying the formatted message.
Errorf(format, args) == [kind |-> "error", msg |-> Sprintf(format, args)]

\* ---------------------------------------------------------------- input

\* The lexemes of the statement shapes an input document is built from,
\* each a list of <<token kind, text, width in characters>>.
Lexemes(shape) ==
  CASE shape = "plain" ->
         << <<tokenIRIAbs, "http://a", 10>>, <<tokenIRIAbs, "http://b", 10>>,
            <<tokenLiteral, "x", 3>>, <<tokenDot, "", 1>> >>
    [] shape = "lang" ->
         << <<tokenIRIAbs, "http://a", 10>>, <<tokenIRIAbs, "http://b", 10>>,
            <<tokenLiteral, "x", 3>>, <<tokenLang, "en", 3>>,
            <<tokenBNode, "_:defaultGraph", 14>>, <<tokenDot, "", 1>> >>
    [] shape = "typed" ->
         << <<tokenBNode, "_:s", 3>>, <<tokenIRIAbs, "http://b", 10>>,
            <<tokenLiteral, "1", 3>>, <<tokenDataTypeMarker, "", 2>>,
            <<tokenIRIAbs, "http://t", 10>>, <<tokenIRIAbs, "http://g", 10>>,
            <<tokenDot, "", 1>> >>
    [] shape = "dotobj" ->
         << <<tokenIRIAbs, "http://a", 10>>, <<tokenIRIAbs, "http://b", 10>>,
            <<tokenDot, "", 1>> >>
    [] shape = "badlit" ->
         << <<tokenIRIAbs, "http://a", 10>>, <<tokenIRIAbs, "http://b", 10>>,
            <<tokenError, "bad literal: no closing quote", 2>> >>
    [] shape = "resource" ->
         << <<tokenIRIAbs, "http://a", 10>>, <<tokenIRIAbs, "http://b", 10>>,
            <<tokenIRIAbs, "http://c", 10>>, <<tokenDot, "", 1>> >>
    [] shape = "nodot" ->
         << <<tokenIRIAbs, "http://a", 10>>, <<tokenIRIAbs, "http://b", 10>>,
            <<tokenLiteral, "x", 3>> >>
    [] shape = "blankpred" ->
         << <<tokenIRIAbs, "http://a", 10>>, <<tokenBNode, "_:p", 3>>,
            <<tokenLiteral, "x", 3>>, <<tokenDot, "", 1>> >>

WellFormedShapes == {"plain", "lang", "typed", "resource"}
MalformedShapes == {"dotobj", "badlit", "nodot", "blankpred"}
Shapes == WellFormedShapes \cup MalformedShapes

\* The documents of at most n statements, one per line.
Documents(n) == UNION {[1..k -> Shapes] : k \in 0..n}

\* The shapes the token-level operations are exercised on, and the
\* documents of at most n lines built from them.
LineShapes == {"plain", "lang", "typed", "dotobj", "badlit"}
Lines(n) == UNION {[1..k -> LineShapes] : k \in 0..n}

\* ---------------------------------------------------------------- lexer

\* The tokens of one line: each lexeme positioned at its 1-based column,
\* lexemes separated by one space, the line closed by an end-of-line token.
RECURSIVE LineTokens(_, _, _)
LineTokens(lexemes, line, col) ==
  IF lexemes = <<>>
  THEN << [typ |-> tokenEOL, text |-> "", line |-> line, col |-> col] >>
  ELSE LET x == Head(lexemes)
       IN << [typ |-> x[1], text |-> x[2], line |-> line, col |-> col] >>
          \o LineTokens(Tail(lexemes), line, col + x[3] + 1)

\* The token stream of a document, ended by the end-of-input token.
RECURSIVE DocTokens(_, _)
DocTokens(doc, i) ==
  IF i > Len(doc)
  THEN << [typ |-> tokenEOF, text |-> "", line |-> i, col |-> 1] >>
  ELSE LineTokens(Lexemes(doc[i]), i, 1) \o DocTokens(doc, i + 1)

\* newLineLexer: a lexer over the reader's document, nothing emitted yet.
newLineLexer(r) == [toks |-> DocTokens(r, 1), pos |-> 0]

\* The i-th token the lexer produces (i >= 1); at exhaustion it keeps
\* answering with the end-of-input token.
TokAt(l, i) == IF i <= Len(l.toks) THEN l.toks[i] ELSE l.toks[Len(l.toks)]

\* lexer.nextToken: the next token, the lexer advanced by one.
nextToken(l) == [l |-> [l EXCEPT !.pos = @ + 1], tok |-> TokAt(l, l.pos + 1)]

\* ---------------------------------------------------------------- lookahead buffer

\* next() that, when it has to ask the lexer, starts from a fresh decoder
\* value holding the lexer only: format and DefaultGraph fall back to zero.
nextResetsDecoder(d) ==
  LET d1 == IF d.peekCount > 0
            THEN [d EXCEPT !.peekCount = @ - 1]
            ELSE LET r == nextToken(d.l)
                 IN [d EXCEPT !.tokens[0] = r.tok, !.l = r.l,
                              !.format = "", !.DefaultGraph = [kind |-> "none"]]
  IN [d |-> d1, tok |-> d1.tokens[d1.peekCount], idx |-> d1.peekCount]

\* next() with the buffered token forgotten: it always asks the lexer.
nextIgnoresBuffer(d) ==
  LET r == nextToken(d.l)
      d1 == [d EXCEPT !.tokens[0] = r.tok, !.l = r.l, !.peekCount = 0]
  IN [d |-> d1, tok |-> d1.tokens[0], idx |-> 0]

\* QuadDecoder.next: the next token, consumed; idx is the index of the
\* lookahead array the call read.
next(d) ==
  LET d1 == IF d.peekCount > 0
            THEN [d EXCEPT !.peekCount = @ - 1]
            ELSE LET r == nextToken(d.l)
                 IN [d EXCEPT !.tokens[0] = r.tok, !.l = r.l]
  IN [d |-> d1, tok |-> d1.tokens[d1.peekCount], idx |-> d1.peekCount]

\* peek() without the test of peekCount: every call asks the lexer.
peekAlwaysPulls(d) ==
  LET r == nextToken(d.l)
      d1 == [d EXCEPT !.peekCount = 1, !.tokens[0] = r.tok, !.l = r.l]
  IN [d |-> d1, tok |-> d1.tokens[0], idx |-> 0]

\* peek() that buffers a further token on every call, with its test for
\* room in the lookahead array off by one.
peekStacks(d) ==
  IF d.peekCount > 3
  THEN [d |-> d, tok |-> d.tokens[2], idx |-> 2]
  ELSE LET r == nextToken(d.l)
           i == d.peekCount
           d1 == [d EXCEPT !.peekCount = @ + 1, !.l = r.l,
                           !.tokens = [j \in 0..2 |-> IF j = i THEN r.tok ELSE @[j]]]
       IN [d |-> d1, tok |-> r.tok, idx |-> i]

\* peek() that forgets to count the token it buffered.
peekForgetsCount(d) ==
  IF d.peekCount > 0
  THEN [d |-> d, tok |-> d.tokens[d.peekCount - 1], idx |-> d.peekCount - 1]
  ELSE LET r == nextToken(d.l)
           d1 == [d EXCEPT !.tokens[0] = r.tok, !.l = r.l]
       IN [d |-> d1, tok |-> d1.tokens[0], idx |-> 0]

\* QuadDecoder.peek: the next token, not consumed; idx is the index of the
\* lookahead array the call read.
peek(d) ==
  IF d.peekCount > 0
  THEN [d |-> d, tok |-> d.tokens[d.peekCount - 1], idx |-> d.peekCount - 1]
  ELSE LET r == nextToken(d.l)
           d1 == [d EXCEPT !.peekCount = 1, !.tokens[0] = r.tok, !.l = r.l]
       IN [d |-> d1, tok |-> d1.tokens[0], idx |-> 0]

\* ---------------------------------------------------------------- faults

\* QuadDecoder.errorf: formats the error and terminates parsing (a panic
\* carrying the error).  Sprintf("%s", format) leaves the format as it is.
errorf(format, args) ==
  LET f == format
  IN Errorf(f, args)

\* unexpected() reporting the column where the line belongs and the line
\* where the column belongs.
unexpectedSwapped(t, context) ==
  errorf(<<"%d", ":", "%d", " unexpected ", "%v", " as ", "%s">>,
         <<t.col, t.line, t.typ, context>>)

\* QuadDecoder.unexpected: complains about the given token.
unexpected(t, context) ==
  errorf(<<"%d", ":", "%d", " unexpected ", "%v", " as ", "%s">>,
         <<t.line, t.col, t.typ, context>>)

\* expect1As() that puts the offending token back into the lookahead buffer
\* before it raises the fault.
expect1AsUnreads(d, context, expected) ==
  Bind(next(d), LAMBDA r :
    LET t == r.tok
    IN IF t.typ # expected
       THEN [d |-> [r.d EXCEPT !.peekCount = 1], tok |-> t,
             panic |-> IF t.typ = tokenError
                       THEN errorf(<<"%d", ":", "%d", ": syntax error: ", "%s">>,
                                   <<t.line, t.col, t.text>>)
                       ELSE unexpected(t, context)]
       ELSE [d |-> r.d, tok |-> t, panic |-> NoPanic])

\* expect1As() that complains about the lexer's error token only: any other
\* token is returned whatever its type.
expect1AsLenient(d, context, expected) ==
  Bind(next(d), LAMBDA r :
    LET t == r.tok
    IN [d |-> r.d, tok |-> t,
        panic |-> IF t.typ # expected /\ t.typ = tokenError
                  THEN errorf(<<"%d", ":", "%d", ": syntax error: ", "%s">>,
                              <<t.line, t.col, t.text>>)
                  ELSE NoPanic])

\* QuadDecoder.expect1As: consumes the next token and guarantees its type.
expect1As(d, context, expected) ==
  Bind(next(d), LAMBDA r :
    LET t == r.tok
    IN [d |-> r.d, tok |-> t,
        panic |-> IF t.typ # expected
                  THEN IF t.typ = tokenError
                       THEN errorf(<<"%d", ":", "%d", ": syntax error: ", "%s">>,
                                   <<t.line, t.col, t.text>>)
                       ELSE unexpected(t, context)
                  ELSE NoPanic])

\* expectAs() whose complaint about a well-formed token of an unexpected
\* type does not terminate: the call falls through to its return statement.
expectAsFallsThrough(d, context, expected) ==
  Bind(next(d), LAMBDA r :
    LET t == r.tok
    IN [d |-> r.d, tok |-> t,
        panic |-> IF \E e \in expected : t.typ = e
                  THEN NoPanic
                  ELSE IF t.typ = tokenError
                       THEN errorf(<<"%d", ":", "%d", ": syntax error: ", "%v">>,
                                   <<t.line, t.col, t.text>>)
                       ELSE NoPanic])

\* expectAs() without its branch for the lexer's error token.
expectAsNoLexical(d, context, expected) ==
  Bind(next(d), LAMBDA r :
    LET t == r.tok
    IN [d |-> r.d, tok |-> t,
        panic |-> IF \E e \in expected : t.typ = e
                  THEN NoPanic
                  ELSE unexpected(t, context)])

\* QuadDecoder.expectAs: consumes the next token and guarantees that it has
\* one of the expected types.
expectAs(d, context, expected) ==
  Bind(next(d), LAMBDA r :
    LET t == r.tok
    IN [d |-> r.d, tok |-> t,
        panic |-> IF \E e \in expected : t.typ = e
                  THEN NoPanic
                  ELSE IF t.typ = tokenError
                       THEN errorf(<<"%d", ":", "%d", ": syntax error: ", "%v">>,
                                   <<t.line, t.col, t.text>>)
                       ELSE unexpected(t, context)])

\* A runtime error raised while the parser runs.
RuntimeError(text) == [kind |-> "runtime", msg |-> <<"runtime error: ", text>>]

\* The runtime error of a failed type assertion e.(error).
TypeAssertionError ==
  RuntimeError("interface conversion: not an error")

\* recover() without its test for runtime errors: whatever was raised is
\* bound to the error result.
recoverAll(e, err) ==
  IF e # NoPanic
  THEN [err |-> e, panic |-> NoPanic]
  ELSE [err |-> err, panic |-> NoPanic]

\* QuadDecoder.recover: a panic carrying an error is bound to the error
\* result; a runtime error is raised again; when nothing was raised the
\* error result is left as it is.  A panic value that is no error fails the
\* type assertion, which raises a runtime error of its own.
recover(e, err) ==
  IF e # NoPanic
  THEN IF e.kind = "runtime"
       THEN [err |-> err, panic |-> e]
       ELSE IF e.kind = "error" \/ e.kind = "EOF"
            THEN [err |-> e, panic |-> NoPanic]
            ELSE [err |-> err, panic |-> TypeAssertionError]
  ELSE [err |-> err, panic |-> NoPanic]

\* ---------------------------------------------------------------- grammar (N-Quads)

\* The state of one parse cycle: the decoder, the quad under construction,
\* the error result, a pending panic, whether the routine has returned, and
\* the tokens the cycle has consumed through next(), in order.
Running(ps) == ps.panic = NoPanic /\ ~ps.done

\* A parse cycle starts with the quad's Context set to the default graph.
StartParse(d) ==
  [d |-> d, q |-> [ZeroQuad EXCEPT !.Ctx = d.DefaultGraph], err |-> nil,
   panic |-> NoPanic, done |-> FALSE, nexts |-> <<>>]

\* One expectation check inside a parse cycle.
After(ps, r) ==
  [ps EXCEPT !.d = r.d, !.panic = r.panic, !.nexts = Append(@, r.tok)]

\* Step 1: skip the end-of-line tokens left before the statement; at the
\* end-of-input token the cycle returns EndOfStream.
RECURSIVE SkipLines(_)
SkipLines(ps) ==
  Bind(peek(ps.d), LAMBDA p :
    IF p.tok.typ = tokenEOL
    THEN Bind(next(p.d), LAMBDA n :
           Bind([ps EXCEPT !.d = n.d, !.nexts = Append(@, n.tok)],
                LAMBDA ps1 : SkipLines(ps1)))
    ELSE IF p.tok.typ = tokenEOF
         THEN [ps EXCEPT !.d = p.d, !.err = EOF, !.done = TRUE]
         ELSE [ps EXCEPT !.d = p.d])

\* Step 2: the subject, an IRI reference or a blank node label.
ParseSubject(ps) ==
  IF ~Running(ps) THEN ps
  ELSE Bind(expectAs(ps.d, "subject", {tokenIRIAbs, tokenBNode}), LAMBDA r :
         IF r.panic # NoPanic THEN After(ps, r)
         ELSE [After(ps, r) EXCEPT !.q.Subj = IF r.tok.typ = tokenIRIAbs
                                              THEN IRI(r.tok.text)
                                              ELSE Blank(r.tok.text)])

\* Step 3: the predicate, an IRI reference only.
ParsePredicate(ps) ==
  IF ~Running(ps) THEN ps
  ELSE Bind(expect1As(ps.d, "predicate", tokenIRIAbs), LAMBDA r :
         IF r.panic # NoPanic THEN After(ps, r)
         ELSE [After(ps, r) EXCEPT !.q.Pred = IRI(r.tok.text)])

\* Step 4, the suffix of a literal: a language tag, or a datatype marker
\* followed by the datatype IRI, or nothing.
ParseLiteralSuffix(ps, val) ==
  Bind(peek(ps.d), LAMBDA p :
    IF p.tok.typ = tokenLang
    THEN Bind(next(p.d), LAMBDA n :
           [ps EXCEPT !.d = n.d, !.nexts = Append(@, n.tok),
                      !.q.Obj = Literal(val, n.tok.text, "")])
    ELSE IF p.tok.typ = tokenDataTypeMarker
    THEN Bind(next(p.d), LAMBDA n :
           Bind(expect1As(n.d, "literal datatype", tokenIRIAbs), LAMBDA r :
             Bind(After([ps EXCEPT !.nexts = Append(@, n.tok)], r), LAMBDA ps1 :
               IF r.panic # NoPanic THEN ps1
               ELSE [ps1 EXCEPT !.q.Obj = Literal(val, "", r.tok.text)])))
    ELSE [ps EXCEPT !.d = p.d, !.q.Obj = Literal(val, "", "")])

\* Step 4: the object, an IRI reference, a blank node label or a literal.
ParseObject(ps) ==
  IF ~Running(ps) THEN ps
  ELSE Bind(expectAs(ps.d, "object", {tokenIRIAbs, tokenBNode, tokenLiteral}),
         LAMBDA r :
           Bind(After(ps, r), LAMBDA ps1 :
             IF r.panic # NoPanic THEN ps1
             ELSE IF r.tok.typ = tokenIRIAbs
                  THEN [ps1 EXCEPT !.q.Obj = IRI(r.tok.text)]
             ELSE IF r.tok.typ = tokenBNode
                  THEN [ps1 EXCEPT !.q.Obj = Blank(r.tok.text)]
             ELSE ParseLiteralSuffix(ps1, r.tok.text)))

\* Step 5: the optional graph label; if absent the Context stays the
\* default graph.
ParseGraph(ps) ==
  IF ~Running(ps) THEN ps
  ELSE Bind(peek(ps.d), LAMBDA p :
         IF p.tok.typ \in {tokenIRIAbs, tokenBNode}
         THEN Bind(next(p.d), LAMBDA n :
                [ps EXCEPT !.d = n.d, !.nexts = Append(@, n.tok),
                           !.q.Ctx = IF n.tok.typ = tokenIRIAbs
                                     THEN IRI(n.tok.text)
                                     ELSE Blank(n.tok.text)])
         ELSE [ps EXCEPT !.d = p.d])

\* Step 6: the statement-end token.
ParseDot(ps) ==
  IF ~Running(ps) THEN ps
  ELSE After(ps, expect1As(ps.d, "dot", tokenDot))

\* QuadDecoder.parseNQ: one parse cycle; a grammar violation raised inside
\* it is caught at its boundary and returned as the error result, next to
\* the quad as far as it was built.  raised is what the cycle raised and
\* errp the error result it had set before the boundary was reached.
parseNQ(d) ==
  Bind(SkipLines(StartParse(d)), LAMBDA p1 :
  Bind(ParseSubject(p1), LAMBDA p2 :
  Bind(ParsePredicate(p2), LAMBDA p3 :
  Bind(ParseObject(p3), LAMBDA p4 :
  Bind(ParseGraph(p4), LAMBDA p5 :
  Bind(ParseDot(p5), LAMBDA ps :
    LET rc == recover(ps.panic, ps.err)
    IN [d |-> ps.d, q |-> ps.q, err |-> rc.err, panic |-> rc.panic,
        nexts |-> ps.nexts, raised |-> ps.panic, errp |-> ps.err]))))))

\* QuadDecoder.Decode: the next valid Quad, or an error.
Decode(d) == parseNQ(d)

\* ---------------------------------------------------------------- factories

\* The zero value of the decoder struct.
ZeroDecoder ==
  [l |-> [toks |-> <<>>, pos |-> 0], format |-> "", DefaultGraph |-> NoTerm,
   tokens |-> [i \in 0..2 |-> ZeroToken], peekCount |-> 0]

\* NewQuadDecoder() that leaves DefaultGraph at its zero value.
NewQuadDecoderNoGraph(rd, f) ==
  [ZeroDecoder EXCEPT !.l = newLineLexer(rd), !.format = f]

\* NewQuadDecoder(r, f): a decoder over a line lexer, in the given format,
\* with the default graph; the lookahead array and peekCount are zero.
NewQuadDecoder(rd, f) ==
  [ZeroDecoder EXCEPT !.l = newLineLexer(rd), !.format = f,
                      !.DefaultGraph = Blank("_:defaultGraph")]

\* NewTripleDecoder(r, f): the decoder of the format, and a panic for a
\* format that has none.
NewTripleDecoder(rd, f) ==
  CASE f = FormatNT -> [decoder |-> "newNTDecoder", panic |-> NoPanic]
    [] f = FormatRDFXML -> [decoder |-> "newRDFXMLDecoder", panic |-> NoPanic]
    [] f = FormatTTL -> [decoder |-> "newTTLDecoder", panic |-> NoPanic]
    [] OTHER -> [decoder |-> "",
                 panic |-> Errorf(<<"Decoder for serialization format ", "%s",
                                    " not implemented">>, <<f>>)]

\* ---------------------------------------------------------------- state

VARIABLES
  phase,     \* "new": nothing constructed; "quad": a QuadDecoder exists;
             \* "triple": a TripleDecoder exists; "panic": construction panicked
  r,         \* the document behind the io.Reader
  d,         \* the QuadDecoder: l, format, DefaultGraph, tokens, peekCount
  pc,        \* position of a DecodeAll call: "idle" or "loop"
  qs,        \* DecodeAll's accumulated quads
  cur,       \* DecodeAll's loop variables q, err
  calls,     \* the results of the Decode calls of the running DecodeAll call
  consumed,  \* the tokens returned by next() so far, in order
  look,      \* the current run of consecutive peek() calls
  ret        \* what the latest operation returned, and the state it started in

vars == <<phase, r, d, pc, qs, cur, calls, consumed, look, ret>>

\* No run of peek() calls is open.  A run is "peeking" from its first call
\* on, rep once a further call followed, and "taken" once a next() has closed
\* it; tok is what the first call returned, pos0 and n0 the lexer position
\* and the number of consumed tokens the run started at.
NoLook == [state |-> "none", rep |-> FALSE, tok |-> ZeroToken, pos0 |-> 0, n0 |-> 0]

NoCur == [q |-> ZeroQuad, err |-> nil]

\* The record of a returned operation: its results, the context it was
\* given, whether the consumed token was of an expected type, whether the
\* expected list was empty, the constructed triple decoder, the Decode
\* results behind a DecodeAll, what was raised inside the call and the error
\* result it started with, the index of the lookahead array it read, whether
\* it follows a call that ended in a fault, and the lexer position,
\* peekCount and number of consumed tokens it started at.
NoRet ==
  [op |-> "none", tok |-> ZeroToken, q |-> ZeroQuad, err |-> nil, qs |-> <<>>,
   panic |-> NoPanic, context |-> "", match |-> FALSE, empty |-> FALSE,
   decoder |-> "", calls |-> <<>>, raised |-> NoPanic, errp |-> nil,
   idx |-> 0, afterFault |-> FALSE,
   pre |-> [pos |-> 0, peekCount |-> 0, n |-> 0]]

Ret(op) ==
  [NoRet EXCEPT !.op = op,
     !.pre = [pos |-> d.l.pos, peekCount |-> d.peekCount, n |-> Len(consumed)]]

\* The latest operation ended in a fault: a panic, or an error result that
\* is not the end of the stream.
Faulted == ret.panic # NoPanic \/ ret.err.kind = "error"

\* The lexer is asked for at most MaxExtraPulls tokens after end of input.
WithinPulls(d1) == d1.l.pos <= Len(d1.l.toks) + MaxExtraPulls

Contexts == {"predicate", "object"}

\* The expected lists handed to expectAs: those of the grammar, the empty
\* list, lists holding the error kind, and the list of every kind.
ExpectedSets ==
  {{}, {tokenIRIAbs, tokenBNode}, {tokenIRIAbs, tokenBNode, tokenLiteral},
   {tokenError}, {tokenDot, tokenEOL, tokenError}, TokenTypes}

\* What a deferred recover() can find raised: nothing, a grammar violation
\* raised by errorf, a runtime error, or a panic value that is no error.
RaisedValues ==
  {NoPanic,
   errorf(<<"%d", ":", "%d", ": syntax error: ", "%s">>, <<1, 3, "bad IRI">>),
   unexpected([typ |-> tokenDot, text |-> ".", line |-> 2, col |-> 5], "object"),
   RuntimeError("index out of range"),
   RuntimeError("invalid memory address or nil pointer dereference"),
   [kind |-> "value", msg |-> <<"not an error">>]}

\* The error result a parse cycle can hold when its deferred recover() runs.
ErrorResults == {nil, EOF, Errorf(<<"earlier error">>, <<>>)}

\* Nothing is constructed yet; the reader holds a document.
Init ==
  /\ phase = "new"
  /\ r \in Documents(MaxStmts)
  /\ d = ZeroDecoder
  /\ pc = "idle"
  /\ qs = <<>>
  /\ cur = NoCur
  /\ calls = <<>>
  /\ consumed = <<>>
  /\ look = NoLook
  /\ ret = NoRet

\* A QuadDecoder for N-Quads has been constructed over a document.
InitTokens ==
  /\ phase = "quad"
  /\ r \in Lines(MaxLines)
  /\ d = NewQuadDecoder(r, FormatNQ)
  /\ pc = "idle"
  /\ qs = <<>>
  /\ cur = NoCur
  /\ calls = <<>>
  /\ consumed = <<>>
  /\ look = NoLook
  /\ ret = NoRet

\* ---------------------------------------------------------------- construction

\* A call of NewQuadDecoder(r, f).
DoNewQuadDecoder ==
  /\ phase = "new"
  /\ \E f \in Format : d' = NewQuadDecoder(r, f)
  /\ phase' = "quad"
  /\ ret' = [NoRet EXCEPT !.op = "NewQuadDecoder"]
  /\ UNCHANGED <<r, pc, qs, cur, calls, consumed, look>>

\* A call of NewTripleDecoder(r, f).
DoNewTripleDecoder ==
  /\ phase = "new"
  /\ \E f \in Format :
       LET t == NewTripleDecoder(r, f)
       IN /\ phase' = IF t.panic = NoPanic THEN "triple" ELSE "panic"
          /\ ret' = [NoRet EXCEPT !.op = "NewTripleDecoder",
                                  !.decoder = t.decoder, !.panic = t.panic]
  /\ UNCHANGED <<r, d, pc, qs, cur, calls, consumed, look>>

\* ---------------------------------------------------------------- lookahead calls

Ready == phase = "quad" /\ pc = "idle"

\* A call of d.next().
DoNext ==
  /\ Ready
  /\ \E n \in {next(d)} :
        /\ WithinPulls(n.d)
        /\ d' = n.d
        /\ consumed' = Append(consumed, n.tok)
        /\ ret' = [Ret("next") EXCEPT !.tok = n.tok, !.idx = n.idx,
                                      !.afterFault = Faulted]
  /\ look' = IF look.state = "peeking"
             THEN [look EXCEPT !.state = "taken"]
             ELSE NoLook
  /\ UNCHANGED <<phase, r, pc, qs, cur, calls>>

\* A call of d.peek().
DoPeek ==
  /\ Ready
  /\ \E p \in {peek(d)} :
        /\ WithinPulls(p.d)
        /\ d' = p.d
        /\ ret' = [Ret("peek") EXCEPT !.tok = p.tok, !.idx = p.idx,
                                      !.afterFault = Faulted]
        /\ look' = IF look.state = "peeking"
                   THEN [look EXCEPT !.rep = TRUE]
                   ELSE [state |-> "peeking", rep |-> FALSE, tok |-> p.tok,
                         pos0 |-> d.l.pos, n0 |-> Len(consumed)]
  /\ UNCHANGED <<phase, r, pc, qs, cur, calls, consumed>>

\* A call of d.expect1As(context, expected); a fault leaves as a panic.
DoExpect1As ==
  /\ Ready
  /\ \E context \in Contexts, expected \in TokenTypes :
       \E e \in {expect1As(d, context, expected)} :
          /\ WithinPulls(e.d)
          /\ d' = e.d
          /\ consumed' = Append(consumed, e.tok)
          /\ ret' = [Ret("expect1As") EXCEPT !.tok = e.tok, !.panic = e.panic,
                                             !.context = context,
                                             !.match = (e.tok.typ = expected)]
  /\ look' = NoLook
  /\ UNCHANGED <<phase, r, pc, qs, cur, calls>>

\* A call of d.expectAs(context, expected...); a fault leaves as a panic.
DoExpectAs ==
  /\ Ready
  /\ \E context \in Contexts, expected \in ExpectedSets :
       \E e \in {expectAs(d, context, expected)} :
          /\ WithinPulls(e.d)
          /\ d' = e.d
          /\ consumed' = Append(consumed, e.tok)
          /\ ret' = [Ret("expectAs") EXCEPT !.tok = e.tok, !.panic = e.panic,
                                            !.context = context,
                                            !.match = (e.tok.typ \in expected),
                                            !.empty = (expected = {})]
  /\ look' = NoLook
  /\ UNCHANGED <<phase, r, pc, qs, cur, calls>>

\* ---------------------------------------------------------------- facade

\* A call of d.Decode().
DoDecode ==
  /\ Ready
  /\ \E res \in {Decode(d)} :
        /\ WithinPulls(res.d)
        /\ d' = res.d
        /\ consumed' = consumed \o res.nexts
        /\ ret' = [Ret("Decode") EXCEPT !.q = res.q, !.err = res.err,
                                        !.panic = res.panic,
                                        !.raised = res.raised,
                                        !.errp = res.errp]
  /\ look' = NoLook
  /\ UNCHANGED <<phase, r, pc, qs, cur, calls>>

\* The deferred d.recover(&err) at the boundary of a parse cycle that raised
\* e while its error result was err.
DoRecover ==
  /\ Ready
  /\ \E e \in RaisedValues, err \in ErrorResults :
       \E rc \in {recover(e, err)} :
          ret' = [Ret("recover") EXCEPT !.raised = e, !.errp = err,
                                        !.err = rc.err, !.panic = rc.panic]
  /\ UNCHANGED <<phase, r, d, pc, qs, cur, calls, consumed, look>>

\* d.DecodeAll() is entered: qs is nil and the loop's init statement makes
\* the first Decode call.
DecodeAllCall ==
  /\ Ready
  /\ \E res \in {Decode(d)} :
        /\ WithinPulls(res.d)
        /\ d' = res.d
        /\ consumed' = consumed \o res.nexts
        /\ cur' = [q |-> res.q, err |-> res.err]
        /\ calls' = << [q |-> res.q, err |-> res.err, pos |-> res.d.l.pos] >>
  /\ ret' = Ret("DecodeAll:running")
  /\ qs' = <<>>
  /\ pc' = "loop"
  /\ look' = NoLook
  /\ UNCHANGED <<phase, r>>

\* DecodeAll whose loop is left at a fault only: at io.EOF it neither
\* returns nor goes on.
DecodeAllReturnOnFaultOnly ==
  /\ phase = "quad"
  /\ pc = "loop"
  /\ cur.err # nil
  /\ cur.err # EOF
  /\ ret' = [ret EXCEPT !.op = "DecodeAll", !.qs = <<>>, !.err = cur.err,
                        !.calls = calls]
  /\ pc' = "idle"
  /\ qs' = <<>>
  /\ cur' = NoCur
  /\ calls' = <<>>
  /\ UNCHANGED <<phase, r, d, consumed, look>>

\* DecodeAll returning what it has accumulated next to the error.
DecodeAllReturnPartial ==
  /\ phase = "quad"
  /\ pc = "loop"
  /\ cur.err # nil
  /\ ret' = IF cur.err = EOF
            THEN [ret EXCEPT !.op = "DecodeAll", !.qs = qs, !.err = nil,
                             !.calls = calls]
            ELSE [ret EXCEPT !.op = "DecodeAll", !.qs = qs, !.err = cur.err,
                             !.calls = calls]
  /\ pc' = "idle"
  /\ qs' = <<>>
  /\ cur' = NoCur
  /\ calls' = <<>>
  /\ UNCHANGED <<phase, r, d, consumed, look>>

\* The loop of DecodeAll ends: at io.EOF it returns the accumulated quads
\* and no error, at any other error nil and that error.
DecodeAllReturn ==
  /\ phase = "quad"
  /\ pc = "loop"
  /\ cur.err # nil
  /\ ret' = IF cur.err = EOF
            THEN [ret EXCEPT !.op = "DecodeAll", !.qs = qs, !.err = nil,
                             !.calls = calls]
            ELSE [ret EXCEPT !.op = "DecodeAll", !.qs = <<>>, !.err = cur.err,
                             !.calls = calls]
  /\ pc' = "idle"
  /\ qs' = <<>>
  /\ cur' = NoCur
  /\ calls' = <<>>
  /\ UNCHANGED <<phase, r, d, consumed, look>>

\* The loop of DecodeAll putting each quad in front of the earlier ones.
DecodeAllLoopPrepend ==
  /\ phase = "quad"
  /\ pc = "loop"
  /\ cur.err = nil
  /\ \E res \in {Decode(d)} :
        /\ WithinPulls(res.d)
        /\ d' = res.d
        /\ consumed' = consumed \o res.nexts
        /\ cur' = [q |-> res.q, err |-> res.err]
        /\ calls' = Append(calls, [q |-> res.q, err |-> res.err,
                                   pos |-> res.d.l.pos])
  /\ qs' = <<cur.q>> \o qs
  /\ UNCHANGED <<phase, r, pc, look, ret>>

\* One iteration of the loop of DecodeAll: the quad is appended and the
\* loop's post statement makes the next Decode call.
DecodeAllLoop ==
  /\ phase = "quad"
  /\ pc = "loop"
  /\ cur.err = nil
  /\ \E res \in {Decode(d)} :
        /\ WithinPulls(res.d)
        /\ d' = res.d
        /\ consumed' = consumed \o res.nexts
        /\ cur' = [q |-> res.q, err |-> res.err]
        /\ calls' = Append(calls, [q |-> res.q, err |-> res.err,
                                   pos |-> res.d.l.pos])
  /\ qs' = Append(qs, cur.q)
  /\ UNCHANGED <<phase, r, pc, look, ret>>

\* ---------------------------------------------------------------- specifications

\* Construction and the facade, over documents of up to MaxStmts statements.
Next ==
  \/ DoNewQuadDecoder
  \/ DoNewTripleDecoder
  \/ DoDecode
  \/ DecodeAllCall
  \/ DecodeAllReturn
  \/ DecodeAllLoop

Spec == Init /\ [][Next]_vars

\* The same, with a running DecodeAll call going on: the decoder is
\* synchronous and single-threaded, so a call that has been entered keeps
\* executing its loop until it returns.
LiveSpec ==
  /\ Init
  /\ [][Next]_vars
  /\ WF_vars(DecodeAllLoop)
  /\ WF_vars(DecodeAllReturn)

\* Every operation of a constructed decoder, in any order, over documents of
\* up to MaxLines lines.
NextTokens ==
  \/ DoNext
  \/ DoPeek
  \/ DoExpect1As
  \/ DoExpectAs
  \/ DoDecode
  \/ DecodeAllCall
  \/ DecodeAllReturn
  \/ DecodeAllLoop

TokenSpec == InitTokens /\ [][NextTokens]_vars

\* Parse cycles and the recovery at their boundary, over documents of up to
\* MaxLines statements.
NextRecover ==
  \/ DoDecode
  \/ DoRecover

RecoverSpec == InitTokens /\ [][NextRecover]_vars

\* ---------------------------------------------------------------- claims

\* What a well-formed statement shape denotes, read off the N-Quads text it
\* stands for: its terms and its graph label, if it has one.
HasGraph(shape) == shape \in {"lang", "typed"}

Denotes(shape, defaultGraph) ==
  CASE shape = "plain" ->
         [Subj |-> IRI("http://a"), Pred |-> IRI("http://b"),
          Obj |-> Literal("x", "", ""), Ctx |-> defaultGraph]
    [] shape = "lang" ->
         [Subj |-> IRI("http://a"), Pred |-> IRI("http://b"),
          Obj |-> Literal("x", "en", ""), Ctx |-> Blank("_:defaultGraph")]
    [] shape = "typed" ->
         [Subj |-> Blank("_:s"), Pred |-> IRI("http://b"),
          Obj |-> Literal("1", "", "http://t"), Ctx |-> IRI("http://g")]
    [] shape = "resource" ->
         [Subj |-> IRI("http://a"), Pred |-> IRI("http://b"),
          Obj |-> IRI("http://c"), Ctx |-> defaultGraph]

WellFormed(doc) == \A i \in 1..Len(doc) : doc[i] \in WellFormedShapes

\* A DecodeAll call on a decoder nothing was read from has returned.
DecodedAllFresh == ret.op = "DecodeAll" /\ ret.pre.pos = 0

\* C1: DecodeAll on N well-formed statements returns exactly N results, in
\* the order its Decode calls produced them (input order), and no error;
\* io.EOF, which ends the loop, is never returned as the error.
C1_DecodeAllReturnsAllInOrder ==
  ret.op = "DecodeAll" =>
    /\ ret.err # EOF
    /\ LET n == Len(ret.calls)
       IN (ret.calls[n].err = EOF) =>
            /\ ret.err = nil
            /\ ret.qs = [i \in 1..(n - 1) |-> ret.calls[i].q]
    /\ (ret.pre.pos = 0 /\ WellFormed(r)) =>
         /\ ret.err = nil
         /\ Len(ret.qs) = Len(r)
         /\ \A i \in 1..Len(r) : ret.qs[i] = Denotes(r[i], d.DefaultGraph)

\* Two different well-formed statements were decoded by one DecodeAll.
C1_Witness ==
  /\ DecodedAllFresh
  /\ WellFormed(r)
  /\ Len(r) = 2
  /\ r[1] # r[2]
  /\ Len(ret.qs) = 2
  /\ ret.err = nil

\* C2: if the k-th Decode call of DecodeAll returns a fault, DecodeAll
\* returns that fault and no results, whatever k is, and makes no Decode
\* call after it: the fault is the last call, the calls before it succeeded,
\* and the lexer stands where the faulting call left it.
C2_FaultDiscardsEverything ==
  /\ pc = "loop" => \A k \in 1..(Len(calls) - 1) : calls[k].err = nil
  /\ ret.op = "DecodeAll" =>
       \A k \in 1..Len(ret.calls) :
          ret.calls[k].err.kind = "error" =>
            /\ k = Len(ret.calls)
            /\ ret.err = ret.calls[k].err
            /\ ret.qs = <<>>
            /\ d.l.pos = ret.calls[k].pos

\* DecodeAll returned the fault of its second Decode call.
C2_Witness ==
  /\ ret.op = "DecodeAll"
  /\ Len(ret.calls) = 2
  /\ ret.calls[1].err = nil
  /\ ret.calls[2].err.kind = "error"
  /\ ret.err = ret.calls[2].err
  /\ ret.qs = <<>>

\* C3: peek() is non-consuming and idempotent: the consecutive peek() calls
\* of a run all return the token the first returned, consume nothing and
\* advance the lexer at most once in total, and the next() that follows
\* returns that token too, without advancing the lexer.
C3_PeekIdempotent ==
  /\ look.state = "peeking" =>
       /\ ret.op = "peek"
       /\ ret.tok = look.tok
       /\ Len(consumed) = look.n0
       /\ d.l.pos <= look.pos0 + 1
       /\ look.rep => d.l.pos = ret.pre.pos
  /\ look.state = "taken" =>
       /\ ret.op = "next"
       /\ ret.tok = look.tok
       /\ Len(consumed) = look.n0 + 1
       /\ d.l.pos <= look.pos0 + 1
       /\ d.l.pos = ret.pre.pos

\* A run of at least two peek() calls that had to ask the lexer was closed
\* by a next().
C3_Witness ==
  /\ look.state = "taken"
  /\ look.rep
  /\ d.l.pos = look.pos0 + 1
  /\ look.n0 > 0

\* C4: under every interleaving of the operations, the tokens returned by
\* the successive next() calls are the lexer's tokens in order, the i-th
\* call returning the i-th token; a next() consumes exactly one token and
\* asks the lexer only when the buffer is empty.
C4_NextFollowsLexer ==
  /\ \A i \in 1..Len(consumed) : consumed[i] = TokAt(d.l, i)
  /\ ret.op = "next" =>
       /\ Len(consumed) = ret.pre.n + 1
       /\ ret.tok = TokAt(d.l, Len(consumed))
       /\ d.l.pos = ret.pre.pos + (IF ret.pre.peekCount = 0 THEN 1 ELSE 0)

\* A next() took a buffered token after earlier tokens had been consumed.
C4_Witness ==
  /\ ret.op = "next"
  /\ ret.pre.peekCount = 1
  /\ Len(consumed) >= 3
  /\ d.l.pos = ret.pre.pos

\* C5: asking for a decoder of a format the factory does not implement is a
\* fault raised at construction: no usable decoder exists for such a format
\* (a QuadDecoder exists only for a format it parses, a TripleDecoder only
\* with an implementation behind it).
C5_UnimplementedFormatFaultsAtConstruction ==
  /\ phase = "quad" => d.format \in QuadFormats
  /\ phase = "triple" => ret.decoder # ""

\* C6: on an input of N well-formed statements, N in {0, 1}, the first N
\* Decode calls return the parsed statements and the (N+1)-th returns
\* EndOfStream with no fault; on the empty input the first call does.
C6_DecodeThenEndOfStream ==
  (ret.op = "Decode" /\ Len(r) <= 1 /\ WellFormed(r)) =>
    /\ ret.panic = NoPanic
    /\ Len(r) = 0 => ret.err = EOF
    /\ (Len(r) = 1 /\ ret.pre.n = 0) =>
         /\ ret.err = nil
         /\ ret.q = Denotes(r[1], d.DefaultGraph)
    /\ (Len(r) = 1 /\ ret.pre.n >= Len(Lexemes(r[1]))) => ret.err = EOF

\* The second Decode call on a one-statement input returned EndOfStream.
C6_Witness ==
  /\ Len(r) = 1
  /\ WellFormed(r)
  /\ ret.op = "Decode"
  /\ ret.pre.n = Len(Lexemes(r[1]))
  /\ ret.err = EOF

\* C7: a statement without a graph term is returned with Context equal to
\* the decoder's default graph sentinel (a Blank), a statement with a graph
\* term with that term as Context, and any two quads without a graph term
\* of one session have equal Context.
C7_DefaultGraphContext ==
  /\ (ret.op = "Decode" /\ ret.pre.n = 0 /\ ret.err = nil) =>
       /\ d.DefaultGraph.kind = "Blank"
       /\ ret.q.Ctx = Denotes(r[1], d.DefaultGraph).Ctx
  /\ (DecodedAllFresh /\ ret.err = nil) =>
       /\ d.DefaultGraph.kind = "Blank"
       /\ \A i \in 1..Len(ret.qs) :
            ret.qs[i].Ctx = Denotes(r[i], d.DefaultGraph).Ctx
       /\ \A i, j \in 1..Len(ret.qs) :
            (~HasGraph(r[i]) /\ ~HasGraph(r[j])) =>
               ret.qs[i].Ctx = ret.qs[j].Ctx

\* Two statements without a graph term were decoded in one session.
C7_Witness ==
  /\ DecodedAllFresh
  /\ ret.err = nil
  /\ Len(ret.qs) = 2
  /\ ~HasGraph(r[1])
  /\ ~HasGraph(r[2])
  /\ ret.qs[1].Ctx = d.DefaultGraph
  /\ ret.qs[2].Ctx = d.DefaultGraph

\* C8: the default graph sentinel differs from every graph name parsed from
\* input: no statement with an explicit graph term, a blank node label
\* included, yields a quad whose Context equals the sentinel.
C8_SentinelDistinctFromParsedGraphs ==
  /\ (ret.op = "Decode" /\ ret.pre.n = 0 /\ ret.err = nil /\ HasGraph(r[1])) =>
       ret.q.Ctx # d.DefaultGraph
  /\ (DecodedAllFresh /\ ret.err = nil) =>
       \A i \in 1..Len(ret.qs) : HasGraph(r[i]) => ret.qs[i].Ctx # d.DefaultGraph

\* The message starts with the line and the column of token t, both 1-based.
Positioned(msg, t) ==
  /\ Len(msg) >= 3
  /\ msg[1] = Itoa(t.line)
  /\ msg[2] = ":"
  /\ msg[3] = Itoa(t.col)
  /\ t.line >= 1
  /\ t.col >= 1

Expecting == ret.op \in {"expect1As", "expectAs"}

\* C9: every fault raised by an expectation check carries the line and the
\* column of the offending token, the token the check has just consumed
\* (the next one of the lexer's stream), whatever its kind and whatever the
\* expected kinds; so does the fault a Decode call returns.
C9_FaultCarriesPosition ==
  /\ (Expecting /\ ret.panic # NoPanic) =>
       /\ ret.panic.kind = "error"
       /\ ret.tok = TokAt(d.l, ret.pre.n + 1)
       /\ Positioned(ret.panic.msg, ret.tok)
  /\ (ret.op = "Decode" /\ ret.err.kind = "error") =>
       Positioned(ret.err.msg, TokAt(d.l, Len(consumed)))

\* An expectation check failed on a token that is not the first of its line.
C9_Witness ==
  /\ Expecting
  /\ ret.panic # NoPanic
  /\ ret.tok.col > ret.tok.line
  /\ ret.tok.typ = tokenLiteral

\* C10: when an expectation check fails, the offending token decides the
\* fault: the lexer's error token yields a lexical fault carrying the
\* token's text, in every grammar position; a token of any other kind
\* yields a syntax fault naming that kind and the context expected.  A bare
\* dot in object position names "object".
C10_FaultKindFollowsToken ==
  /\ (Expecting /\ ret.panic # NoPanic) =>
       ret.panic.msg =
         IF ret.tok.typ = tokenError
         THEN <<Itoa(ret.tok.line), ":", Itoa(ret.tok.col), ": syntax error: ",
                ret.tok.text>>
         ELSE <<Itoa(ret.tok.line), ":", Itoa(ret.tok.col), " unexpected ",
                ret.tok.typ, " as ", ret.context>>
  /\ (ret.op = "Decode" /\ ret.pre.n = 0 /\ Len(r) >= 1) =>
       /\ r[1] = "dotobj" =>
            /\ ret.err.kind = "error"
            /\ SubSeq(ret.err.msg, 4, 7) = <<" unexpected ", tokenDot, " as ", "object">>
       /\ r[1] = "badlit" =>
            /\ ret.err.kind = "error"
            /\ SubSeq(ret.err.msg, 4, 5) =
                 <<": syntax error: ", "bad literal: no closing quote">>

\* An expectation check failed on the lexer's error token.
C10_Witness ==
  /\ ret.op = "expectAs"
  /\ ret.tok.typ = tokenError
  /\ ret.panic # NoPanic
  /\ ret.context = "predicate"

\* C11: expect1As and expectAs return normally exactly when the token they
\* consumed is of the expected type (of one of the expected types); in every
\* other case the call ends in a fault, so no token of an unexpected type is
\* handed back, and with an empty expected list every call ends in a fault.
C11_ExpectGuaranteesType ==
  Expecting =>
    /\ (ret.panic = NoPanic) <=> ret.match
    /\ ret.panic # NoPanic => ret.panic.kind = "error"
    /\ ret.empty => ret.panic # NoPanic
    /\ Len(consumed) = ret.pre.n + 1 /\ consumed[Len(consumed)] = ret.tok

\* expectAs with an empty expected list consumed a well-formed token and
\* ended in a fault.
C11_Witness ==
  /\ ret.op = "expectAs"
  /\ ret.empty
  /\ ret.tok.typ = tokenIRIAbs
  /\ ret.panic # NoPanic

\* C12: a grammar violation raised inside a parse cycle is caught once at the
\* boundary of the Decode call and becomes its error result, with nothing
\* raised any further; a runtime error is never made an error result, it is
\* raised again and leaves the error result as it was; when nothing was
\* raised the error result is unchanged.
C12_RecoverConvertsOnlyGrammarFaults ==
  ret.op \in {"recover", "Decode"} =>
    /\ ret.raised.kind = "error"
         => ret.err = ret.raised /\ ret.panic = NoPanic
    /\ ret.raised.kind = "runtime"
         => ret.panic = ret.raised /\ ret.err = ret.errp
    /\ ret.raised = NoPanic
         => ret.err = ret.errp /\ ret.panic = NoPanic
    /\ ret.op = "Decode" /\ ret.err.kind = "error" => ret.raised = ret.err

\* A runtime error was raised while the error result was EndOfStream, and
\* it was raised again.
C12_Witness ==
  /\ ret.op = "recover"
  /\ ret.raised = RuntimeError("index out of range")
  /\ ret.errp = EOF
  /\ ret.panic = ret.raised

\* The tokens the latest call consumed, without the end-of-line tokens
\* skipped in front of the statement.
RECURSIVE DropLines(_)
DropLines(toks) ==
  IF toks # <<>> /\ Head(toks).typ = tokenEOL THEN DropLines(Tail(toks))
  ELSE toks

StatementTokens == DropLines(SubSeq(consumed, ret.pre.n + 1, Len(consumed)))

\* C13: every quad Decode returns without an error, after any earlier Decode
\* calls, has an IRI or blank node as Subject, an IRI as Predicate (read from
\* an IRI token, never a blank node or literal), an IRI or blank node as
\* Context, and an Object that, when it is a literal, carries at most one of
\* datatype and language tag; and the last token consumed for it is the
\* statement-terminating dot.
C13_ReturnedQuadWellFormed ==
  (ret.op = "Decode" /\ ret.err = nil /\ ret.panic = NoPanic) =>
    /\ ret.q.Subj.kind \in {"IRI", "Blank"}
    /\ ret.q.Pred.kind = "IRI"
    /\ ret.q.Ctx.kind \in {"IRI", "Blank"}
    /\ ret.q.Obj.kind \in {"IRI", "Blank", "Literal"}
    /\ ret.q.Obj.kind = "Literal"
         => ~(ret.q.Obj.lang # "" /\ ret.q.Obj.DataType # "")
    /\ LET toks == StatementTokens
       IN /\ Len(toks) >= 4
          /\ toks[1].typ \in {tokenIRIAbs, tokenBNode}
          /\ toks[2].typ = tokenIRIAbs
          /\ toks[3].typ \in {tokenIRIAbs, tokenBNode, tokenLiteral}
          /\ toks[Len(toks)].typ = tokenDot

\* A second Decode call returned a quad with a typed literal and a graph
\* label, after a first call had returned a quad with an IRI as object.
C13_Witness ==
  /\ ret.op = "Decode"
  /\ ret.err = nil
  /\ ret.pre.n > 0
  /\ r[1] = "resource"
  /\ ret.q.Obj = Literal("1", "", "http://t")
  /\ ret.q.Ctx = IRI("http://g")

\* C14: in every state of a constructed decoder, after any sequence of
\* peek, next, expect1As, expectAs, Decode and DecodeAll calls, faulting ones
\* included, at most 3 tokens are buffered, peekCount lies in 0..3, and the
\* index at which next and peek read the lookahead array lies in 0..2.
C14_LookaheadWithinBounds ==
  phase = "quad" =>
    /\ d.peekCount \in 0..3
    /\ DOMAIN d.tokens = 0..2
    /\ d.l.pos - Len(consumed) \in 0..3
    /\ ret.op \in {"next", "peek"} => ret.idx \in 0..2

\* A peek() right after a call that ended in a fault buffered a token.
C14_Witness ==
  /\ ret.op = "peek"
  /\ ret.afterFault
  /\ ret.pre.peekCount = 0
  /\ d.peekCount = 1
  /\ ret.idx = 0

\* C15: the lookahead buffer stores up to 3 tokens of lookahead: a run of k
\* peek() calls with no next() between them, k up to 3, leaves k tokens not
\* yet consumed in the buffer, so that from the second call on more than one
\* token of lookahead is held.
C15_HoldsSeveralTokens ==
  (phase = "quad" /\ look.state = "peeking" /\ look.rep) =>
    /\ d.peekCount >= 2
    /\ d.l.pos - Len(consumed) >= 2

\* The latest call was a Decode, expect1As or expectAs that ended in a fault.
FaultedParse ==
  /\ ret.op \in {"Decode", "expect1As", "expectAs"}
  /\ Faulted

\* C16: a lexical or syntax fault ends the Decode call (or the expectation
\* check) with the offending token consumed exactly once and the lookahead
\* buffer consistent: the fault names the last consumed token, nothing stays
\* buffered, the consumed tokens are the lexer's stream without gap or
\* repetition, and a next() or peek() that follows returns the lexer token
\* after the offending one.
C16_FaultLeavesBufferConsistent ==
  /\ FaultedParse =>
       /\ Len(consumed) > ret.pre.n
       /\ Positioned(IF ret.op = "Decode" THEN ret.err.msg ELSE ret.panic.msg,
                     consumed[Len(consumed)])
       /\ d.peekCount = 0
       /\ d.l.pos = Len(consumed)
       /\ \A i \in 1..Len(consumed) : consumed[i] = TokAt(d.l, i)
  /\ (ret.op \in {"next", "peek"} /\ ret.afterFault) =>
       /\ ret.pre.peekCount = 0
       /\ ret.tok = TokAt(d.l, ret.pre.n + 1)
       /\ d.l.pos = ret.pre.n + 1

\* A next() right after a faulted call returned a token of the line after
\* the offending one.
C16_Witness ==
  /\ ret.op = "next"
  /\ ret.afterFault
  /\ ret.tok.typ = tokenIRIAbs
  /\ ret.tok.line = 2
  /\ consumed[ret.pre.n].line = 1

\* C17: no operation on a constructed decoder (Decode, DecodeAll, next,
\* peek, expect1As, expectAs, with the recover, errorf and unexpected they
\* run) changes its format or its default graph: every step leaves both as
\* they were, whether the call succeeds, ends the stream or faults.
C17_FormatAndDefaultGraphFrozen ==
  [][phase = "quad" =>
       /\ d'.format = d.format
       /\ d'.DefaultGraph = d.DefaultGraph]_vars

\* A Decode call reached end of input after tokens had been consumed, with
\* the format and default graph of construction still in place.
C17_Witness ==
  /\ ret.op = "Decode"
  /\ ret.err = EOF
  /\ Len(consumed) > 0
  /\ d.format = FormatNQ
  /\ d.DefaultGraph = Blank("_:defaultGraph")

\* C18: on a finite input ended by the end-of-input token every Decode call
\* of DecodeAll returns, and DecodeAll itself returns: its loop makes at most
\* one Decode call per statement and one more, stops at the first call that
\* returns EndOfStream or a fault, and a call that has been entered
\* eventually returns.
C18_DecodeAllTerminates ==
  /\ [](pc = "loop" =>
          /\ Len(calls) <= Len(r) + 1
          /\ \A k \in 1..(Len(calls) - 1) : calls[k].err = nil)
  /\ [](ret.op = "DecodeAll" => ret.calls[Len(ret.calls)].err # nil)
  /\ (pc = "loop") ~> (pc = "idle" /\ ret.op = "DecodeAll")

\* A DecodeAll call over two statements returned after three Decode calls,
\* the last of which signalled the end of the stream.
C18_Witness ==
  /\ pc = "idle"
  /\ ret.op = "DecodeAll"
  /\ Len(r) = 2
  /\ Len(ret.calls) = 3
  /\ ret.calls[3].err = EOF
  /\ ret.calls[3].pos = Len(d.l.toks)

\* C19: in every state of a constructed decoder the number of tokens pulled
\* from the lexer is the number consumed through next() plus peekCount, and
\* peekCount is 0 or 1, so the lexer is at most one token ahead; slots 1 and
\* 2 of the lookahead array are never written; and next(), peek() and the
\* expectation checks advance the lexer by one token when they start on an
\* empty buffer and not at all otherwise.
C19_LexerAtMostOneAhead ==
  phase = "quad" =>
    /\ d.peekCount \in {0, 1}
    /\ d.l.pos = Len(consumed) + d.peekCount
    /\ d.tokens[1] = ZeroToken
    /\ d.tokens[2] = ZeroToken
    /\ d.l.pos > 0 => d.tokens[0] = TokAt(d.l, d.l.pos)
    /\ ret.op \in {"next", "peek", "expect1As", "expectAs"} =>
         d.l.pos = ret.pre.pos + (IF ret.pre.peekCount = 0 THEN 1 ELSE 0)

\* A peek() on a buffer that already held a token, after tokens had been
\* consumed, left the lexer where it was.
C19_Witness ==
  /\ ret.op = "peek"
  /\ ret.pre.peekCount = 1
  /\ Len(consumed) > 0
  /\ d.l.pos = ret.pre.pos
  /\ d.l.pos = Len(consumed) + 1

====
